---- MODULE Spec2Model ----
(***************************************************************************)
(* Model of the SparkFun Qwiic Dual Encoder Reader Python package:         *)
(*   - qwiic_dual_encoder_reader.py : the register-access driver           *)
(*   - examples/ex9_Auto_pHAT_Straight_Line.py : the straight-line loop    *)
(* The encoder reader board is modelled by its register file `regs`; the   *)
(* firmware (hardware ticks, button events) is the environment.            *)
(***************************************************************************)
EXTENDS Integers, Sequences, FiniteSets, TLC

VARIABLES
    regs,       \* register file of the encoder reader at AVAILABLE_I2C_ADDRESS
    last,       \* the most recent bus-side event: a driver call or a hardware event
    prev,       \* the event before `last`
    pc,                     \* position of the example program
    encConnected,           \* what myEncoders.connected reports
    motConnected,           \* what the motor driver reports about its connection
    i,                      \* loop index of runExample
    left_motor_speed,       \* in fifths of a speed unit (P_gain = 1/5)
    motor_speed_correction, \* in fifths of a speed unit
    count12_delta,
    prev_count12_delta,
    error_change,
    operand,                \* left operand of the expression being evaluated
    motorsEnabled,          \* output stage of the motor driver
    motorCmds,              \* commands issued to the motor driver, in order
    iterEvents,             \* bus events of the current loop iteration, in order
    raisedAt                \* where an exception left runExample ("" when none did)

drvVars == <<regs, last, prev>>
exVars == <<pc, encConnected, motConnected, i, left_motor_speed, motor_speed_correction,
            count12_delta, prev_count12_delta, error_change, operand, motorsEnabled,
            motorCmds, iterEvents, raisedAt>>
vars == <<regs, last, prev, pc, encConnected, motConnected, i, left_motor_speed,
          motor_speed_correction, count12_delta, prev_count12_delta, error_change,
          operand, motorsEnabled, motorCmds, iterEvents, raisedAt>>

-----------------------------------------------------------------------------
(* Module-level constants of qwiic_dual_encoder_reader.py *)

AVAILABLE_I2C_ADDRESS == 63
QDER_STATUS == 1
QDER_COUNT1 == 5
QDER_DIFFERENCE1 == 7
QDER_COUNT2 == 9
QDER_LAST_ENCODER_EVENT == 13
statusEncoderMovedBit == 0
statusButtonPressedBit == 1
statusButtonClickedBit == 2

\* 16-bit words and 8-bit bytes on the wire
WordMod == 65536
ByteMod == 256

Registers ==
    {QDER_STATUS, QDER_COUNT1, QDER_DIFFERENCE1, QDER_COUNT2, QDER_LAST_ENCODER_EVENT}

-----------------------------------------------------------------------------
(* Bounds of the model *)

MaxTick == 2        \* hardware ticks a channel may accumulate in the driver runs
MaxMillis == 1      \* largest value LAST_ENCODER_EVENT counts up to
MaxIter == 3        \* loop iterations of runExample (range(0,100) in the example)

-----------------------------------------------------------------------------
(* Python integer operators used by the driver *)

RECURSIVE BitAnd(_, _)
BitAnd(a, b) ==
    IF a = 0 \/ b = 0 THEN 0
    ELSE (a % 2) * (b % 2) + 2 * BitAnd(a \div 2, b \div 2)

Shl(b) == 2 ^ b

\* v & ~m for a non-negative v : the bits of v that are not in m
AndNot(v, m) == v - BitAnd(v, m)

-----------------------------------------------------------------------------
(* The I2C transport (qwiic_i2c) as the driver uses it: a transaction       *)
(* reaches the board only when it is addressed to the board.                *)

readByte(dev, addr, reg) == IF addr = AVAILABLE_I2C_ADDRESS THEN dev[reg] % ByteMod ELSE 0

readWord(dev, addr, reg) == IF addr = AVAILABLE_I2C_ADDRESS THEN dev[reg] % WordMod ELSE 0

writeByte(dev, addr, reg, value) ==
    IF addr = AVAILABLE_I2C_ADDRESS THEN [dev EXCEPT ![reg] = value % ByteMod] ELSE dev

writeWord(dev, addr, reg, value) ==
    IF addr = AVAILABLE_I2C_ADDRESS THEN [dev EXCEPT ![reg] = value % WordMod] ELSE dev

\* self.address as set by the constructor with no address argument
address == AVAILABLE_I2C_ADDRESS

-----------------------------------------------------------------------------
(* Records of what happened on the bus *)

NoCall == [op |-> "none", clear |-> FALSE, exc |-> "", ret |-> 0, pre |-> << >>]

Record(op, clear, exc, ret) ==
    /\ last' = [op |-> op, clear |-> clear, exc |-> exc, ret |-> ret, pre |-> regs]
    /\ prev' = last

\* what a method call yields: the register file afterwards, the value returned,
\* and the exception raised ("" when the call returns)
Outcome(dev, ret, exc) == [dev |-> dev, ret |-> ret, exc |-> exc]

-----------------------------------------------------------------------------
(* Driver methods: QwiicDualEncoderReader *)

clear_interrupts(dev) ==
    Outcome(writeByte(dev, address, QDER_STATUS, 0), 0, "")

\* the sign reinterpretation shared by get_count1 and get_count2
Decode_OffByOne(c) == IF c >= 32767 THEN c - WordMod ELSE c

Decode(c) == IF c > 32767 THEN c - WordMod ELSE c

get_count1(dev) ==
    LET c1 == readWord(dev, address, QDER_COUNT1)
    IN  Outcome(dev, Decode(c1), "")

get_count2(dev) ==
    LET c2 == readWord(dev, address, QDER_COUNT2)
    IN  Outcome(dev, Decode(c2), "")

set_count1(dev, amount) ==
    Outcome(writeWord(dev, address, QDER_COUNT1, amount), 0, "")

set_count2(dev, amount) ==
    Outcome(writeWord(dev, address, QDER_COUNT2, amount), 0, "")

get_diff(dev, clear_value) ==
    LET difference == readWord(dev, address, QDER_DIFFERENCE1)
    IN  IF clear_value
        THEN Outcome(writeWord(dev, address, QDER_DIFFERENCE1, 0), difference, "")
        ELSE Outcome(dev, difference, "")

has_moved_NoClear(dev) ==
    LET status == readByte(dev, address, QDER_STATUS)
    IN  Outcome(dev, BitAnd(status, Shl(statusEncoderMovedBit)) # 0, "")

has_moved_ClearAll(dev) ==
    LET status == readByte(dev, address, QDER_STATUS)
    IN  Outcome(writeByte(dev, address, QDER_STATUS, 0),
                BitAnd(status, Shl(statusEncoderMovedBit)) # 0, "")

has_moved(dev) ==
    LET status == readByte(dev, address, QDER_STATUS)
    IN  Outcome(writeByte(dev, address, QDER_STATUS,
                          AndNot(status, Shl(statusEncoderMovedBit))),
                BitAnd(status, Shl(statusEncoderMovedBit)) # 0, "")

\* Line 348 calls writeWord(QDER_LAST_ENCODER_EVENT, 0): two arguments where the
\* transport takes (address, commandCode, value), as every other call site passes.
\* Python rejects the call with a TypeError before any bus transaction, so the
\* method raises and returns nothing.
since_last_movement(dev, clear_value) ==
    LET time_elapsed == readWord(dev, address, QDER_LAST_ENCODER_EVENT)
    IN  IF clear_value
        THEN Outcome(dev, 0, "TypeError")
        ELSE Outcome(dev, time_elapsed, "")

-----------------------------------------------------------------------------
(* The board's firmware, seen from the bus *)

SetBit(v, b) == v + Shl(b) - BitAnd(v, Shl(b))

\* an encoder channel moves one tick in direction d
HwTick(reg, d) ==
    LET c == Decode(regs[reg]) + d
        diff == Decode(regs[QDER_DIFFERENCE1]) + d
    IN  /\ c >= -MaxTick /\ c <= MaxTick
        /\ reg = QDER_COUNT1 => (diff >= -MaxTick /\ diff <= MaxTick)
        /\ regs' = [regs EXCEPT
                      ![reg] = c % WordMod,
                      ![QDER_DIFFERENCE1] =
                          IF reg = QDER_COUNT1 THEN diff % WordMod ELSE @,
                      ![QDER_LAST_ENCODER_EVENT] = 0,
                      ![QDER_STATUS] = SetBit(@, statusEncoderMovedBit)]

HwButton(b) ==
    /\ BitAnd(regs[QDER_STATUS], Shl(b)) = 0
    /\ regs' = [regs EXCEPT ![QDER_STATUS] = SetBit(@, b)]

HwMillis ==
    /\ regs[QDER_LAST_ENCODER_EVENT] < MaxMillis
    /\ regs' = [regs EXCEPT ![QDER_LAST_ENCODER_EVENT] = @ + 1]

-----------------------------------------------------------------------------
(* The example program before its first statement *)

ExStart ==
    /\ pc = "l62"
    /\ i = 0
    /\ left_motor_speed = 0
    /\ motor_speed_correction = 0
    /\ count12_delta = 0
    /\ prev_count12_delta = 0
    /\ error_change = 0
    /\ operand = 0
    /\ motorsEnabled = FALSE
    /\ motorCmds = << >>
    /\ iterEvents = << >>
    /\ raisedAt = ""

-----------------------------------------------------------------------------
(* examples/ex9_Auto_pHAT_Straight_Line.py                                    *)
(*                                                                           *)
(* One action per statement; a statement that makes several bus transactions  *)
(* is one action per transaction, since the counters move between them.      *)
(* Speeds and the correction are kept in fifths of a unit, so that            *)
(* P_gain = 0.2 is the integer factor 1 and D_gain = 1 the factor 5.          *)

L_MTR == 0
L_FWD == 1
R_MTR == 1
R_FWD == 1
motor_speed_target == 70
left_motor_speed_start == 53
Fifths == 5
P_gain == 1
D_gain == 5

MotorCmd(cmd, motor, dir, level) ==
    [cmd |-> cmd, motor |-> motor, dir |-> dir, level |-> level]

Read(reg, use) == [ev |-> "read", reg |-> reg, use |-> use]
Did(what) == [ev |-> what, reg |-> 0, use |-> ""]

\* the statement that follows p when control falls through
After_DriveBeforeGuard(p) ==
    CASE p = "l62" -> "l64"    [] p = "l64" -> "l69"    [] p = "l69" -> "l70"
      [] p = "l70" -> "l71"    [] p = "l71" -> "l72"    [] p = "l72" -> "l73"
      [] p = "l73" -> "l75"    [] p = "l75" -> "l85"    [] p = "l85" -> "l86"
      [] p = "l86" -> "l87"    [] p = "l87" -> "l88"    [] p = "l88" -> "l89"
      [] p = "l89" -> "l90a"   [] p = "l90a" -> "l90b"  [] p = "l90b" -> "l91"
      [] p = "l91" -> "l97"    [] p = "l97" -> "l92a"   [] p = "l92a" -> "l92b"
      [] p = "l92b" -> "l93"   [] p = "l93" -> "l96"    [] p = "l96" -> "l98a"
      [] p = "l98a" -> "l98b"  [] p = "l98b" -> "l100"
      [] p = "l100" -> "l88"   [] p = "l102" -> "l104"  [] p = "l104" -> "returned"

After(p) ==
    CASE p = "l62" -> "l64"    [] p = "l64" -> "l69"    [] p = "l69" -> "l70"
      [] p = "l70" -> "l71"    [] p = "l71" -> "l72"    [] p = "l72" -> "l73"
      [] p = "l73" -> "l75"    [] p = "l75" -> "l85"    [] p = "l85" -> "l86"
      [] p = "l86" -> "l87"    [] p = "l87" -> "l88"    [] p = "l88" -> "l89"
      [] p = "l89" -> "l90a"   [] p = "l90a" -> "l90b"  [] p = "l90b" -> "l91"
      [] p = "l91" -> "l92a"   [] p = "l92a" -> "l92b"  [] p = "l92b" -> "l93"
      [] p = "l93" -> "l96"    [] p = "l96" -> "l97"    [] p = "l97" -> "l98a"
      [] p = "l98a" -> "l98b"  [] p = "l98b" -> "l100"
      [] p = "l100" -> "l88"   [] p = "l102" -> "l104"  [] p = "l104" -> "returned"

Terminal == {"returned", "returned_error", "exit0", "crashed"}

\* statements that make a bus transaction (the encoder reader's or the motor driver's)
BusPcs == {"l70", "l71", "l73", "l85", "l86", "l87", "l90a", "l90b", "l92a", "l92b",
           "l97", "l98a", "l98b", "l102"}

\* positions from the return of enable() to the last statement of the loop
RunningPcs == {"l86", "l87", "l88", "l89", "l90a", "l90b", "l91", "l92a", "l92b",
               "l93", "l96", "l97", "l98a", "l98b", "l100"}

Goto(p) == pc' = p

\* lines 62-67
L62 == /\ pc = "l62"
       /\ Goto(After(pc))
       /\ UNCHANGED <<drvVars, encConnected, motConnected, i, left_motor_speed,
                      motor_speed_correction, count12_delta, prev_count12_delta,
                      error_change, operand, motorsEnabled, motorCmds, iterEvents, raisedAt>>

L64 == /\ pc = "l64"
       /\ IF encConnected = FALSE THEN Goto("returned_error") ELSE Goto(After(pc))
       /\ UNCHANGED <<drvVars, encConnected, motConnected, i, left_motor_speed,
                      motor_speed_correction, count12_delta, prev_count12_delta,
                      error_change, operand, motorsEnabled, motorCmds, iterEvents, raisedAt>>

\* lines 69-71
L69 == /\ pc = "l69"
       /\ Goto(After(pc))
       /\ UNCHANGED <<drvVars, encConnected, motConnected, i, left_motor_speed,
                      motor_speed_correction, count12_delta, prev_count12_delta,
                      error_change, operand, motorsEnabled, motorCmds, iterEvents, raisedAt>>

L70 == /\ pc = "l70"
       /\ regs' = set_count1(regs, 0).dev
       /\ Goto(After(pc))
       /\ UNCHANGED <<last, prev, encConnected, motConnected, i, left_motor_speed,
                      motor_speed_correction, count12_delta, prev_count12_delta,
                      error_change, operand, motorsEnabled, motorCmds, iterEvents, raisedAt>>

L71 == /\ pc = "l71"
       /\ regs' = set_count2(regs, 0).dev
       /\ Goto(After(pc))
       /\ UNCHANGED <<last, prev, encConnected, motConnected, i, left_motor_speed,
                      motor_speed_correction, count12_delta, prev_count12_delta,
                      error_change, operand, motorsEnabled, motorCmds, iterEvents, raisedAt>>

\* lines 72-73: the value begin() returns is dropped
L72 == /\ pc = "l72"
       /\ Goto(After(pc))
       /\ UNCHANGED <<drvVars, encConnected, motConnected, i, left_motor_speed,
                      motor_speed_correction, count12_delta, prev_count12_delta,
                      error_change, operand, motorsEnabled, motorCmds, iterEvents, raisedAt>>

L73 == /\ pc = "l73"
       /\ Goto(After(pc))
       /\ UNCHANGED <<drvVars, encConnected, motConnected, i, left_motor_speed,
                      motor_speed_correction, count12_delta, prev_count12_delta,
                      error_change, operand, motorsEnabled, motorCmds, iterEvents, raisedAt>>

\* lines 75-84
L75 == /\ pc = "l75"
       /\ left_motor_speed' = left_motor_speed_start * Fifths
       /\ motor_speed_correction' = 0
       /\ count12_delta' = 0
       /\ prev_count12_delta' = 0
       /\ error_change' = 0
       /\ Goto(After(pc))
       /\ UNCHANGED <<drvVars, encConnected, motConnected, i, operand, motorsEnabled,
                      motorCmds, iterEvents, raisedAt>>

\* lines 85-87
L85 == /\ pc = "l85"
       /\ motorsEnabled' = TRUE
       /\ motorCmds' = Append(motorCmds, MotorCmd("enable", 0, 0, 0))
       /\ Goto(After(pc))
       /\ UNCHANGED <<drvVars, encConnected, motConnected, i, left_motor_speed,
                      motor_speed_correction, count12_delta, prev_count12_delta,
                      error_change, operand, iterEvents, raisedAt>>

L86 == /\ pc = "l86"
       /\ motorCmds' = Append(motorCmds, MotorCmd("set_drive", L_MTR, L_FWD, left_motor_speed))
       /\ Goto(After(pc))
       /\ UNCHANGED <<drvVars, encConnected, motConnected, i, left_motor_speed,
                      motor_speed_correction, count12_delta, prev_count12_delta,
                      error_change, operand, motorsEnabled, iterEvents, raisedAt>>

L87 == /\ pc = "l87"
       /\ motorCmds' = Append(motorCmds,
                              MotorCmd("set_drive", R_MTR, R_FWD, motor_speed_target * Fifths))
       /\ Goto(After(pc))
       /\ UNCHANGED <<drvVars, encConnected, motConnected, i, left_motor_speed,
                      motor_speed_correction, count12_delta, prev_count12_delta,
                      error_change, operand, motorsEnabled, iterEvents, raisedAt>>

\* line 88: for i in range(0, MaxIter)
L88 == /\ pc = "l88"
       /\ IF i < MaxIter THEN Goto(After(pc)) ELSE Goto("l102")
       /\ iterEvents' = << >>
       /\ UNCHANGED <<drvVars, encConnected, motConnected, i, left_motor_speed,
                      motor_speed_correction, count12_delta, prev_count12_delta,
                      error_change, operand, motorsEnabled, motorCmds, raisedAt>>

L89 == /\ pc = "l89"
       /\ Goto(After(pc))
       /\ UNCHANGED <<drvVars, encConnected, motConnected, i, left_motor_speed,
                      motor_speed_correction, count12_delta, prev_count12_delta,
                      error_change, operand, motorsEnabled, motorCmds, iterEvents, raisedAt>>

\* line 90: count12_delta = myEncoders.count1 - (-myEncoders.count2)
L90a == /\ pc = "l90a"
        /\ operand' = get_count1(regs).ret
        /\ iterEvents' = Append(iterEvents, Read(QDER_COUNT1, "delta"))
        /\ Goto(After(pc))
        /\ UNCHANGED <<drvVars, encConnected, motConnected, i, left_motor_speed,
                       motor_speed_correction, count12_delta, prev_count12_delta,
                       error_change, motorsEnabled, motorCmds, raisedAt>>

L90b == /\ pc = "l90b"
        /\ count12_delta' = operand - (-get_count2(regs).ret)
        /\ operand' = 0
        /\ iterEvents' = Append(iterEvents, Read(QDER_COUNT2, "delta"))
        /\ Goto(After(pc))
        /\ UNCHANGED <<drvVars, encConnected, motConnected, i, left_motor_speed,
                       motor_speed_correction, prev_count12_delta,
                       error_change, motorsEnabled, motorCmds, raisedAt>>

L91 == /\ pc = "l91"
       /\ error_change' = count12_delta - prev_count12_delta
       /\ Goto(After(pc))
       /\ UNCHANGED <<drvVars, encConnected, motConnected, i, left_motor_speed,
                      motor_speed_correction, count12_delta, prev_count12_delta,
                      operand, motorsEnabled, motorCmds, iterEvents, raisedAt>>

\* line 92: if myEncoders.count1 != (-myEncoders.count2): both counters are read again
L92a == /\ pc = "l92a"
        /\ operand' = get_count1(regs).ret
        /\ iterEvents' = Append(iterEvents, Read(QDER_COUNT1, "guard"))
        /\ Goto(After(pc))
        /\ UNCHANGED <<drvVars, encConnected, motConnected, i, left_motor_speed,
                       motor_speed_correction, count12_delta, prev_count12_delta,
                       error_change, motorsEnabled, motorCmds, raisedAt>>

L92b == /\ pc = "l92b"
        /\ IF operand # -get_count2(regs).ret THEN Goto(After(pc)) ELSE Goto("l96")
        /\ operand' = 0
        /\ iterEvents' = Append(iterEvents, Read(QDER_COUNT2, "guard"))
        /\ UNCHANGED <<drvVars, encConnected, motConnected, i, left_motor_speed,
                       motor_speed_correction, count12_delta, prev_count12_delta,
                       error_change, motorsEnabled, motorCmds, raisedAt>>

\* lines 93-95
L93 == /\ pc = "l93"
       /\ motor_speed_correction' = count12_delta * P_gain + D_gain * error_change
       /\ iterEvents' = Append(iterEvents, Did("correction"))
       /\ Goto(After(pc))
       /\ UNCHANGED <<drvVars, encConnected, motConnected, i, left_motor_speed,
                      count12_delta, prev_count12_delta, error_change, operand,
                      motorsEnabled, motorCmds, raisedAt>>

L96 == /\ pc = "l96"
       /\ left_motor_speed' = left_motor_speed - motor_speed_correction
       /\ Goto(After(pc))
       /\ UNCHANGED <<drvVars, encConnected, motConnected, i, motor_speed_correction,
                      count12_delta, prev_count12_delta, error_change, operand,
                      motorsEnabled, motorCmds, iterEvents, raisedAt>>

L97 == /\ pc = "l97"
       /\ motorCmds' = Append(motorCmds, MotorCmd("set_drive", L_MTR, L_FWD, left_motor_speed))
       /\ iterEvents' = Append(iterEvents, Did("set_drive"))
       /\ Goto(After(pc))
       /\ UNCHANGED <<drvVars, encConnected, motConnected, i, left_motor_speed,
                      motor_speed_correction, count12_delta, prev_count12_delta,
                      error_change, operand, motorsEnabled, raisedAt>>

\* lines 98-99: the print reads both counters once more
L98a == /\ pc = "l98a"
        /\ iterEvents' = Append(iterEvents, Read(QDER_COUNT1, "print"))
        /\ Goto(After(pc))
        /\ UNCHANGED <<drvVars, encConnected, motConnected, i, left_motor_speed,
                       motor_speed_correction, count12_delta, prev_count12_delta,
                       error_change, operand, motorsEnabled, motorCmds, raisedAt>>

L98b == /\ pc = "l98b"
        /\ iterEvents' = Append(iterEvents, Read(QDER_COUNT2, "print"))
        /\ Goto(After(pc))
        /\ UNCHANGED <<drvVars, encConnected, motConnected, i, left_motor_speed,
                       motor_speed_correction, count12_delta, prev_count12_delta,
                       error_change, operand, motorsEnabled, motorCmds, raisedAt>>

\* line 100, and the loop's step to the next index
L100 == /\ pc = "l100"
        /\ prev_count12_delta' = count12_delta
        /\ i' = i + 1
        /\ Goto(After(pc))
        /\ UNCHANGED <<drvVars, encConnected, motConnected, left_motor_speed,
                       motor_speed_correction, count12_delta, error_change, operand,
                       motorsEnabled, motorCmds, iterEvents, raisedAt>>

\* lines 102-104
L102 == /\ pc = "l102"
        /\ motorsEnabled' = FALSE
        /\ motorCmds' = Append(motorCmds, MotorCmd("disable", 0, 0, 0))
        /\ Goto(After(pc))
        /\ UNCHANGED <<drvVars, encConnected, motConnected, i, left_motor_speed,
                       motor_speed_correction, count12_delta, prev_count12_delta,
                       error_change, operand, iterEvents, raisedAt>>

L104 == /\ pc = "l104"
        /\ Goto(After(pc))
        /\ UNCHANGED <<drvVars, encConnected, motConnected, i, left_motor_speed,
                       motor_speed_correction, count12_delta, prev_count12_delta,
                       error_change, operand, motorsEnabled, motorCmds, iterEvents, raisedAt>>

\* lines 115-119: KeyboardInterrupt or SystemExit raised inside runExample() is
\* caught; the handler prints and calls sys.exit(0)
Interrupt ==
    /\ pc \notin Terminal
    /\ raisedAt' = pc
    /\ Goto("exit0")
    /\ UNCHANGED <<drvVars, encConnected, motConnected, i, left_motor_speed,
                   motor_speed_correction, count12_delta, prev_count12_delta,
                   error_change, operand, motorsEnabled, motorCmds, iterEvents>>

\* a bus transaction raises (IOError from the transport): the except clause of
\* line 117 does not name it, so it leaves the program through the top level
TransportError ==
    /\ pc \in BusPcs
    /\ raisedAt' = pc
    /\ Goto("crashed")
    /\ UNCHANGED <<drvVars, encConnected, motConnected, i, left_motor_speed,
                   motor_speed_correction, count12_delta, prev_count12_delta,
                   error_change, operand, motorsEnabled, motorCmds, iterEvents>>

\* the wheels turn: channel 1 counts up, channel 2 counts down
ExHwTick ==
    /\ pc \notin Terminal
    /\ \/ HwTick(QDER_COUNT1, 1)
       \/ HwTick(QDER_COUNT2, -1)
    /\ UNCHANGED <<last, prev>>
    /\ UNCHANGED exVars

InitExample ==
    /\ regs = [r \in Registers |-> 0]
    /\ last = NoCall
    /\ prev = NoCall
    /\ encConnected \in BOOLEAN
    /\ motConnected \in BOOLEAN
    /\ ExStart

NextExample ==
    \/ L62 \/ L64 \/ L69 \/ L70 \/ L71 \/ L72 \/ L73 \/ L75
    \/ L85 \/ L86 \/ L87 \/ L88 \/ L89
    \/ L90a \/ L90b \/ L91 \/ L92a \/ L92b \/ L93 \/ L96 \/ L97
    \/ L98a \/ L98b \/ L100 \/ L102 \/ L104
    \/ Interrupt
    \/ TransportError
    \/ ExHwTick

SpecExample == InitExample /\ [][NextExample]_vars

-----------------------------------------------------------------------------
(* A client calling the driver's methods in any order, the board's firmware   *)
(* acting in between.                                                        *)

Drv(op, clear, o) ==
    /\ regs' = o.dev
    /\ Record(op, clear, o.exc, o.ret)
    /\ UNCHANGED exVars

DrvClearInterrupts == Drv("clear_interrupts", FALSE, clear_interrupts(regs))

DrvGetCount1 == Drv("get_count1", FALSE, get_count1(regs))

DrvGetCount2 == Drv("get_count2", FALSE, get_count2(regs))

DrvSetCount1 == \E amount \in {0, WordMod - 1} :
                    Drv("set_count1", FALSE, set_count1(regs, amount))

DrvGetDiff == \E clear_value \in BOOLEAN :
                  Drv("get_diff", clear_value, get_diff(regs, clear_value))

DrvHasMoved == Drv("has_moved", FALSE, has_moved(regs))

DrvSinceLastMovement ==
    \E clear_value \in BOOLEAN :
        Drv("since_last_movement", clear_value, since_last_movement(regs, clear_value))

DrvHwTick == /\ \E d \in {-1, 1} : HwTick(QDER_COUNT1, d)
             /\ Record("hw_tick", FALSE, "", 0)
             /\ UNCHANGED exVars

DrvHwButton == /\ \E b \in {statusButtonPressedBit, statusButtonClickedBit} : HwButton(b)
               /\ Record("hw_button", FALSE, "", 0)
               /\ UNCHANGED exVars

DrvHwMillis == /\ HwMillis
               /\ Record("hw_millis", FALSE, "", 0)
               /\ UNCHANGED exVars

\* STATUS bytes the runs start from: every combination of the three defined bits,
\* with the five undefined bits all clear or all set
StatusSamples == (0 .. 7) \cup (248 .. 255)

InitDriver ==
    /\ \E st \in StatusSamples, ms \in 0 .. MaxMillis :
          regs = [r \in Registers |->
                     IF r = QDER_STATUS THEN st
                     ELSE IF r = QDER_LAST_ENCODER_EVENT THEN ms ELSE 0]
    /\ last = NoCall
    /\ prev = NoCall
    /\ encConnected = TRUE
    /\ motConnected = TRUE
    /\ ExStart

NextDriver ==
    \/ DrvClearInterrupts
    \/ DrvGetCount1
    \/ DrvSetCount1
    \/ DrvGetDiff
    \/ DrvHasMoved
    \/ DrvSinceLastMovement
    \/ DrvHwTick
    \/ DrvHwButton
    \/ DrvHwMillis

SpecDriver == InitDriver /\ [][NextDriver]_vars

-----------------------------------------------------------------------------
(* Reading the counters for every 16-bit word the transport can return       *)

InitDecode ==
    /\ \E v \in 0 .. WordMod - 1 :
          regs = [r \in Registers |->
                     IF r = QDER_COUNT1 THEN v
                     ELSE IF r = QDER_COUNT2 THEN (v + 32768) % WordMod ELSE 0]
    /\ last = NoCall
    /\ prev = NoCall
    /\ encConnected = TRUE
    /\ motConnected = TRUE
    /\ ExStart

NextDecode ==
    \/ DrvGetCount1
    \/ DrvGetCount2

SpecDecode == InitDecode /\ [][NextDecode]_vars

-----------------------------------------------------------------------------
(* Claims about the driver *)

Bit(v, b) == (v \div Shl(b)) % 2

CountRegOf(op) == IF op = "get_count1" THEN QDER_COUNT1 ELSE QDER_COUNT2

\* C1: for every raw word v in 0..65535 held by COUNT1 (COUNT2), get_count1
\* (get_count2) returns v when v <= 32767 and v - 65536 otherwise; the result is
\* in -32768..32767 and re-encoding it modulo 65536 gives back v.
C1_SignedDecode ==
    last.op \in {"get_count1", "get_count2"} =>
        LET v == last.pre[CountRegOf(last.op)]
        IN  /\ v \in 0 .. 65535
            /\ last.exc = ""
            /\ last.ret = (IF v <= 32767 THEN v ELSE v - 65536)
            /\ last.ret \in -32768 .. 32767
            /\ last.ret % 65536 = v

C1_Witness ==
    /\ last.op = "get_count2" /\ last.pre[QDER_COUNT2] = 32768 /\ last.ret = -32768
    /\ prev.op = "get_count1" /\ prev.pre[QDER_COUNT1] = 0 /\ prev.ret = 0

\* C2: when the encoder-moved bit is set and has_moved is called twice with no
\* hardware event in between, the first call returns true and the second false,
\* the first call having cleared the moved bit on the device.
C2_MovedThenNotMoved ==
    (/\ prev.op = "has_moved"
     /\ last.op = "has_moved"
     /\ Bit(prev.pre[QDER_STATUS], statusEncoderMovedBit) = 1) =>
        /\ prev.ret = TRUE
        /\ Bit(last.pre[QDER_STATUS], statusEncoderMovedBit) = 0
        /\ last.ret = FALSE

C2_Witness ==
    /\ prev.op = "has_moved" /\ last.op = "has_moved"
    /\ Bit(prev.pre[QDER_STATUS], statusEncoderMovedBit) = 1
    /\ prev.ret = TRUE /\ last.ret = FALSE

\* C8 (as claimed): since_last_movement(clear_value=True) returns the value read
\* from LAST_ENCODER_EVENT and leaves that register of the device at 0.
C8_ClearOnRead ==
    (last.op = "since_last_movement" /\ last.clear) =>
        /\ last.exc = ""
        /\ last.ret = last.pre[QDER_LAST_ENCODER_EVENT]
        /\ regs[QDER_LAST_ENCODER_EVENT] = 0

\* C10: has_moved writes nothing but bit 0 of STATUS: bits 1..7 of STATUS and
\* every other register hold after the call what they held before it.
C10_HasMovedFrame ==
    last.op = "has_moved" =>
        /\ \A r \in Registers \ {QDER_STATUS} : regs[r] = last.pre[r]
        /\ \A b \in 1 .. 7 : Bit(regs[QDER_STATUS], b) = Bit(last.pre[QDER_STATUS], b)
        /\ Bit(regs[QDER_STATUS], statusEncoderMovedBit) = 0

C10_Witness ==
    /\ last.op = "has_moved"
    /\ last.pre[QDER_STATUS] = 255
    /\ regs[QDER_STATUS] = 254
    /\ regs[QDER_DIFFERENCE1] = 1
    /\ last.ret = TRUE

-----------------------------------------------------------------------------
(* Claims about the example program *)

Issued(cmd) == Cardinality({k \in DOMAIN motorCmds : motorCmds[k].cmd = cmd})

IsLeftDrive(c) == c.cmd = "set_drive" /\ c.motor = L_MTR

\* the speeds sent to the left motor so far, in order
LeftLevels == SelectSeq(motorCmds, IsLeftDrive)

\* positions of an iteration at which its set_drive of line 97 has been issued
AfterDrive == {"l98a", "l98b", "l100"}

SentNow == LeftLevels[Len(LeftLevels)].level
SentBefore == LeftLevels[Len(LeftLevels) - 1].level

\* C3 (as claimed): when KeyboardInterrupt/SystemExit arrives while the loop is
\* running, the motor-disable command has been issued exactly once at exit.
C3_DisableOnceOnCancel ==
    (pc = "exit0" /\ raisedAt \in RunningPcs) =>
        /\ Issued("disable") = 1
        /\ motorsEnabled = FALSE

\* C4 (as claimed): if the encoder device or the motor device reports not
\* connected, no enable and no set_drive is ever issued and the program does
\* not enter the running phase.
C4_NoActivationUnlessBothConnected ==
    (encConnected = FALSE \/ motConnected = FALSE) =>
        /\ Issued("enable") = 0
        /\ Issued("set_drive") = 0
        /\ pc \notin RunningPcs \cup {"l102", "l104", "returned"}

\* C5 (as claimed): when a bus transaction raises after the motors were enabled,
\* the program exits with the motors disabled.
C5_DisabledOnTransportError ==
    (pc = "crashed" /\ raisedAt \in RunningPcs) =>
        /\ motorsEnabled = FALSE
        /\ Issued("disable") = 1

\* C6 (as claimed): in an iteration whose count12_delta is 0 the speed sent to
\* the left motor equals the speed sent to it the time before.
C6_NoAdjustmentInSync ==
    (pc \in AfterDrive /\ count12_delta = 0) => SentNow = SentBefore

\* C7 (as claimed): in an iteration whose count12_delta is not 0 the correction
\* is delta * P_gain + (delta - previous delta) * D_gain and the speed sent to
\* the left motor is the previous one minus that correction.
C7_PDCorrection ==
    (pc \in AfterDrive /\ count12_delta # 0) =>
        LET correction == count12_delta * P_gain
                          + (count12_delta - prev_count12_delta) * D_gain
        IN  /\ motor_speed_correction = correction
            /\ SentNow = SentBefore - correction

IsRead(e) == e.ev = "read"
IsCommand(e) == e.ev \in {"correction", "set_drive"}

\* C9 (as claimed): in an iteration every read of COUNT1 or COUNT2 comes before
\* the correction is computed and before the left motor's set_drive.
C9_AllReadsBeforeCommand ==
    \A j, k \in DOMAIN iterEvents :
        (IsRead(iterEvents[j]) /\ IsCommand(iterEvents[k])) => j < k

\* C9 (amended): in an iteration the reads of COUNT1 and COUNT2 that give
\* count12_delta (line 90) and that decide the guard (line 92) come before the
\* correction is computed and before the left motor's set_drive; after the
\* set_drive both counters are read once more, for the line printed.
C9_ControlReadsBeforeCommand ==
    /\ \A j, k \in DOMAIN iterEvents :
          (/\ IsRead(iterEvents[j])
           /\ iterEvents[j].use \in {"delta", "guard"}
           /\ IsCommand(iterEvents[k])) => j < k
    /\ pc \in AfterDrive =>
          Cardinality({j \in DOMAIN iterEvents :
                          /\ IsRead(iterEvents[j])
                          /\ iterEvents[j].use \in {"delta", "guard"}}) = 4
    /\ pc = "l100" =>
          LET n == Len(iterEvents)
          IN  /\ iterEvents[n - 2].ev = "set_drive"
              /\ iterEvents[n - 1] = Read(QDER_COUNT1, "print")
              /\ iterEvents[n] = Read(QDER_COUNT2, "print")

C9_Witness ==
    /\ pc = "l100"
    /\ i = 1
    /\ Len(iterEvents) = 8
    /\ iterEvents[5].ev = "correction"
    /\ iterEvents[6].ev = "set_drive"

====
